---------------------------- MODULE Spec2Model ----------------------------
(***************************************************************************)
(* speed-formatter: POST /format pipes a code payload through an external *)
(* formatter (npx prettier or rustfmt) and relays the result.              *)
(*                                                                         *)
(* The model follows src/src/main.rs statement by statement.  A request   *)
(* is a task of the tokio runtime; the handler format_code and the two    *)
(* dispatch functions contain no suspension point of their own (every     *)
(* call on std::process is a blocking call), so a task that has been      *)
(* polled keeps its worker thread until the response is built.            *)
(*                                                                         *)
(* The child process and the three OS pipes are modelled explicitly: the  *)
(* pipes have a finite capacity, a write to a full pipe blocks, a write   *)
(* to a pipe whose read end is closed fails with EPIPE, and a read sees   *)
(* end-of-file once the pipe is empty and its write end is closed.        *)
(*                                                                         *)
(* Not modelled: execution_time_ms (a clock reading no claim refers to),  *)
(* the unused request field `formatter`, GET / (a static page), and a     *)
(* read fault inside wait_with_output.                                     *)
(***************************************************************************)
EXTENDS Integers, Sequences, FiniteSets, TLC

(***************************************************************************)
(* Bounds of the model.                                                    *)
(***************************************************************************)
\* requests of the executor specification
NumReqs == 3
\* worker threads of the tokio runtime (the number of cores of the host)
NumWorkers == 2
\* longest code payload, in bytes
MaxCode == 3
\* most bytes a child writes to stdout and stderr together
MaxOut == 3
\* capacity of the BufWriter (8192 in std), scaled down
BufCap == 2
\* capacity of an OS pipe (65536 on Linux), scaled down
PipeCap == 2

ReqIds == 1..NumReqs

Min(a, b) == IF a < b THEN a ELSE b

\* the sequences over S of length at most n
SeqsUpTo(S, n) == UNION {[1..k -> S] : k \in 0..n}

\* the first n elements of s / s without its first n elements
Take(s, n) == SubSeq(s, 1, n)
Drop(s, n) == SubSeq(s, n + 1, Len(s))

(***************************************************************************)
(* Text.  Request and response texts are strings; what travels through a  *)
(* pipe is a sequence of bytes.  97 and 98 are the bytes of "a" and "b",  *)
(* 255 is a byte that occurs in no UTF-8 encoding.                         *)
(***************************************************************************)
CodeBytes == {97, 98}
ChildBytes == {97, 255}

\* String::from_utf8_lossy on one byte: a byte that is not valid UTF-8
\* becomes U+FFFD
DecodeByte(b) ==
    CASE b = 97 -> "a"
      [] b = 98 -> "b"
      [] OTHER  -> "{U+FFFD}"

RECURSIVE from_utf8_lossy(_)
from_utf8_lossy(bytes) ==
    IF bytes = <<>> THEN ""
    ELSE DecodeByte(Head(bytes)) \o from_utf8_lossy(Tail(bytes))

(***************************************************************************)
(* format_code: the match on payload.language (lines 47-63).  The match   *)
(* compares whole strings, case-sensitively.                               *)
(***************************************************************************)
JsTokens == {"javascript", "typescript", "js", "ts"}

\* a faulty variant of Route: the TypeScript tokens sit in the Rust arm
RouteTypeScriptToRust(language) ==
    IF language \in {"javascript", "js"} THEN "format_with_prettier"
    ELSE IF language \in {"rust", "typescript", "ts"} THEN "format_with_rustfmt"
    ELSE "unsupported"

Route(language) ==
    IF language \in JsTokens THEN "format_with_prettier"
    ELSE IF language = "rust" THEN "format_with_rustfmt"
    ELSE "unsupported"

\* the command line each dispatch function builds
CommandLine(tl) ==
    IF tl = "format_with_prettier"
    THEN "npx prettier --stdin-filepath file.js --parser babel"
    ELSE "rustfmt --emit stdout"

\* the label returned beside the formatted code
FormatterLabel(tl) ==
    IF tl = "format_with_prettier" THEN "prettier" ELSE "rustfmt"

(***************************************************************************)
(* The error texts of the two dispatch functions.                          *)
(***************************************************************************)
SpawnError(tl, e) ==
    IF tl = "format_with_prettier"
    THEN "Failed to spawn prettier: " \o e
    ELSE "Failed to spawn rustfmt: " \o e

WriteError(e) == "Failed to write to stdin: " \o e

WaitError(tl, e) ==
    IF tl = "format_with_prettier"
    THEN "Prettier failed: " \o e
    ELSE "rustfmt failed: " \o e

RejectionPrefix(tl) ==
    IF tl = "format_with_prettier" THEN "Prettier error: " ELSE "rustfmt error: "

\* a faulty variant of FormatterError: the message is built from stdout
FormatterErrorFromStdout(tl, result) ==
    RejectionPrefix(tl) \o from_utf8_lossy(result.stdout)

\* Err(format!("Prettier error: {}", String::from_utf8_lossy(&result.stderr)))
FormatterError(tl, result) == RejectionPrefix(tl) \o from_utf8_lossy(result.stderr)

\* Ok((String::from_utf8_lossy(&result.stdout).to_string(), label))
FormattedCode(result) == from_utf8_lossy(result.stdout)

\* a faulty variant of UnsupportedDetails: the language is left out
UnsupportedDetailsAnonymous(language) == "Language is not supported yet"

UnsupportedDetails(language) ==
    "Language '" \o language \o "' is not supported yet"

(***************************************************************************)
(* Responses.  One record shape for FormatResponse, ErrorResponse and the *)
(* health document; a field a response does not carry is "".              *)
(***************************************************************************)
NoResponse ==
    [http |-> 0, status |-> "", formatted_code |-> "", formatter_used |-> "",
     error |-> "", details |-> ""]

FormatResponse(formatted, formatter) ==
    [http |-> 200, status |-> "success", formatted_code |-> formatted,
     formatter_used |-> formatter, error |-> "", details |-> ""]

ErrorResponse(code, error, details) ==
    [http |-> code, status |-> "", formatted_code |-> "", formatter_used |-> "",
     error |-> error, details |-> details]

HealthResponse ==
    [http |-> 200, status |-> "healthy", formatted_code |-> "",
     formatter_used |-> "", error |-> "", details |-> ""]

\* format_code, lines 77-86: the Err arm of the match on result
FormattingFailed(details) == ErrorResponse(500, "Formatting failed", details)

\* format_code, lines 54-62: the default arm of the match on the language
UnsupportedLanguage(language) ==
    ErrorResponse(400, "Unsupported language", UnsupportedDetails(language))

(***************************************************************************)
(* Inputs.                                                                 *)
(***************************************************************************)
Languages ==
    JsTokens \cup {"rust"} \cup {"python", "Rust", "JS", ""}

Codes == SeqsUpTo(CodeBytes, MaxCode)

FormatRequest(languages, codes) ==
    [kind : {"POST /format"}, language : languages, code : codes]

HealthRequest == [kind |-> "GET /health", language |-> "", code |-> <<>>]

Requests == FormatRequest(Languages, Codes) \cup {HealthRequest}

(***************************************************************************)
(* What a child does is fixed when it is spawned: the bytes it will write *)
(* to stdout and to stderr, its exit status, and how it treats its input: *)
(*   "lazy"   reads its input to end-of-file, then writes, then exits     *)
(*   "eager"  writes first, then reads its input to end-of-file, exits    *)
(*   "deaf"   closes its input unread, writes, exits                      *)
(***************************************************************************)
Modes == {"lazy", "eager", "deaf"}

Plans ==
    {p \in [out : SeqsUpTo(ChildBytes, MaxOut), err : SeqsUpTo(ChildBytes, MaxOut),
            exit : {0, 1}, mode : Modes] :
        Len(p.out) + Len(p.err) <= MaxOut}

NoPlan == [out |-> <<>>, err |-> <<>>, exit |-> 0, mode |-> "lazy"]

NoChild ==
    [state |-> "none", plan |-> NoPlan, input |-> <<>>, eof |-> FALSE,
     outPos |-> 0, errPos |-> 0, exit |-> 0]

NoPipe == [data |-> <<>>, w |-> FALSE, r |-> FALSE]
NewPipe == [data |-> <<>>, w |-> TRUE, r |-> TRUE]

NoOutput == [stdout |-> <<>>, stderr |-> <<>>]

\* the I/O faults the operating system raises
SpawnFaults ==
    {"No such file or directory (os error 2)", "Permission denied (os error 13)"}
BrokenPipe == "Broken pipe (os error 32)"
WaitFaults == {"No child processes (os error 10)"}

VARIABLES
    pc,         \* where each request's task is
    req,        \* the deserialized request
    tool,       \* the arm of the match that was taken
    spawned,    \* the command lines handed to spawn(), in order
    child,      \* the child process
    stdinPipe,  \* parent -> child
    stdoutPipe, \* child -> parent
    stderrPipe, \* child -> parent
    writer,     \* the BufWriter's buffer
    sent,       \* bytes of code the pipe has accepted
    output,     \* what wait_with_output has read so far
    resp,       \* the response
    responses,  \* the number of responses sent
    faults      \* the I/O faults raised while handling the request

vars ==
    <<pc, req, tool, spawned, child, stdinPipe, stdoutPipe, stderrPipe,
      writer, sent, output, resp, responses, faults>>

Init ==
    /\ pc = [r \in ReqIds |-> "absent"]
    /\ req = [r \in ReqIds |-> HealthRequest]
    /\ tool = [r \in ReqIds |-> "unsupported"]
    /\ spawned = [r \in ReqIds |-> <<>>]
    /\ child = [r \in ReqIds |-> NoChild]
    /\ stdinPipe = [r \in ReqIds |-> NoPipe]
    /\ stdoutPipe = [r \in ReqIds |-> NoPipe]
    /\ stderrPipe = [r \in ReqIds |-> NoPipe]
    /\ writer = [r \in ReqIds |-> <<>>]
    /\ sent = [r \in ReqIds |-> 0]
    /\ output = [r \in ReqIds |-> NoOutput]
    /\ resp = [r \in ReqIds |-> NoResponse]
    /\ responses = [r \in ReqIds |-> 0]
    /\ faults = [r \in ReqIds |-> {}]

(***************************************************************************)
(* The executor.  A request that has arrived waits until a worker thread  *)
(* is free; from then on it holds that thread until it has responded.     *)
(***************************************************************************)
OnWorker(r) == pc[r] \notin {"absent", "queued", "done"}

BusyWorkers == Cardinality({r \in ReqIds : OnWorker(r)})

\* axum::serve accepts the request and spawns its task
Receive(r, inputs) ==
    /\ pc[r] = "absent"
    /\ \E q \in inputs : req' = [req EXCEPT ![r] = q]
    /\ pc' = [pc EXCEPT ![r] = "queued"]
    /\ UNCHANGED <<tool, spawned, child, stdinPipe, stdoutPipe, stderrPipe,
                   writer, sent, output, resp, responses, faults>>

\* a free worker thread polls the task
Poll(r) ==
    /\ pc[r] = "queued"
    /\ BusyWorkers < NumWorkers
    /\ pc' = [pc EXCEPT ![r] = "handler"]
    /\ UNCHANGED <<req, tool, spawned, child, stdinPipe, stdoutPipe, stderrPipe,
                   writer, sent, output, resp, responses, faults>>

\* the task ends with its response
Respond(r, response) ==
    /\ resp' = [resp EXCEPT ![r] = response]
    /\ responses' = [responses EXCEPT ![r] = @ + 1]
    /\ pc' = [pc EXCEPT ![r] = "done"]

health(r) ==
    /\ pc[r] = "handler"
    /\ req[r].kind = "GET /health"
    /\ Respond(r, HealthResponse)
    /\ UNCHANGED <<req, tool, spawned, child, stdinPipe, stdoutPipe, stderrPipe,
                   writer, sent, output, faults>>

(***************************************************************************)
(* format_code, lines 47-63.                                               *)
(***************************************************************************)
format_code_unsupported(r) ==
    /\ pc[r] = "handler"
    /\ req[r].kind = "POST /format"
    /\ Route(req[r].language) = "unsupported"
    /\ tool' = [tool EXCEPT ![r] = "unsupported"]
    /\ Respond(r, UnsupportedLanguage(req[r].language))
    /\ UNCHANGED <<req, spawned, child, stdinPipe, stdoutPipe, stderrPipe,
                   writer, sent, output, faults>>

format_code_dispatch(r) ==
    /\ pc[r] = "handler"
    /\ req[r].kind = "POST /format"
    /\ Route(req[r].language) # "unsupported"
    /\ tool' = [tool EXCEPT ![r] = Route(req[r].language)]
    /\ pc' = [pc EXCEPT ![r] = "spawn"]
    /\ UNCHANGED <<req, spawned, child, stdinPipe, stdoutPipe, stderrPipe,
                   writer, sent, output, resp, responses, faults>>

(***************************************************************************)
(* format_with_prettier / format_with_rustfmt.  The two functions differ   *)
(* in the command line, the label and the error texts only; tool[r] says  *)
(* which of them runs.                                                     *)
(***************************************************************************)
Room(pipe) == PipeCap - Len(pipe.data)

\* dropping the Child closes the handles it still holds; it neither kills
\* nor waits for the process
DropChild(r) ==
    /\ stdinPipe' = [stdinPipe EXCEPT ![r].w = FALSE]
    /\ stdoutPipe' = [stdoutPipe EXCEPT ![r].r = FALSE, ![r].data = <<>>]
    /\ stderrPipe' = [stderrPipe EXCEPT ![r].r = FALSE, ![r].data = <<>>]

\* lines 95-100 / 121-126: cmd.stdin(piped).stdout(piped).stderr(piped).spawn()
spawn_ok(r, plans) ==
    /\ pc[r] = "spawn"
    /\ spawned' = [spawned EXCEPT ![r] = Append(@, CommandLine(tool[r]))]
    /\ \E p \in plans :
          child' = [child EXCEPT ![r] = [NoChild EXCEPT !.state = "running",
                                                         !.plan = p]]
    /\ stdinPipe' = [stdinPipe EXCEPT ![r] = NewPipe]
    /\ stdoutPipe' = [stdoutPipe EXCEPT ![r] = NewPipe]
    /\ stderrPipe' = [stderrPipe EXCEPT ![r] = NewPipe]
    /\ pc' = [pc EXCEPT ![r] = "write_all"]
    /\ UNCHANGED <<req, tool, writer, sent, output, resp, responses, faults>>

\* .map_err(|e| format!("Failed to spawn prettier: {}", e))?
spawn_err(r) ==
    /\ pc[r] = "spawn"
    /\ spawned' = [spawned EXCEPT ![r] = Append(@, CommandLine(tool[r]))]
    /\ \E e \in SpawnFaults :
          /\ faults' = [faults EXCEPT ![r] = @ \cup {[step |-> "spawn", text |-> e]}]
          /\ Respond(r, FormattingFailed(SpawnError(tool[r], e)))
    /\ UNCHANGED <<req, tool, child, stdinPipe, stdoutPipe, stderrPipe,
                   writer, sent, output>>

\* lines 103 / 129: BufWriter::write_all with an empty buffer keeps a payload
\* shorter than its capacity in the buffer and writes nothing
write_all_buffered(r) ==
    /\ pc[r] = "write_all"
    /\ Len(req[r].code) < BufCap
    /\ writer' = [writer EXCEPT ![r] = req[r].code]
    /\ pc' = [pc EXCEPT ![r] = "drop_writer"]
    /\ UNCHANGED <<req, tool, spawned, child, stdinPipe, stdoutPipe, stderrPipe,
                   sent, output, resp, responses, faults>>

\* a payload of at least the capacity goes straight to the pipe; each write()
\* hands over what the pipe has room for and blocks while it has none
write_all_direct(r) ==
    /\ pc[r] = "write_all"
    /\ Len(req[r].code) >= BufCap
    /\ sent[r] < Len(req[r].code)
    /\ stdinPipe[r].r
    /\ Room(stdinPipe[r]) > 0
    /\ LET n == Min(Room(stdinPipe[r]), Len(req[r].code) - sent[r])
       IN  /\ stdinPipe' = [stdinPipe EXCEPT ![r].data =
                               @ \o SubSeq(req[r].code, sent[r] + 1, sent[r] + n)]
           /\ sent' = [sent EXCEPT ![r] = @ + n]
           /\ pc' = [pc EXCEPT ![r] =
                       IF sent[r] + n = Len(req[r].code) THEN "drop_writer"
                       ELSE "write_all"]
    /\ UNCHANGED <<req, tool, spawned, child, stdoutPipe, stderrPipe,
                   writer, output, resp, responses, faults>>

\* lines 104 / 130: .map_err(|e| format!("Failed to write to stdin: {}", e))?
\* The function returns; the Child goes out of scope unwaited.
write_all_err(r) ==
    /\ pc[r] = "write_all"
    /\ Len(req[r].code) >= BufCap
    /\ sent[r] < Len(req[r].code)
    /\ ~stdinPipe[r].r
    /\ faults' = [faults EXCEPT ![r] = @ \cup {[step |-> "write", text |-> BrokenPipe]}]
    /\ DropChild(r)
    /\ Respond(r, FormattingFailed(WriteError(BrokenPipe)))
    /\ UNCHANGED <<req, tool, spawned, child, writer, sent, output>>

\* the temporary BufWriter is dropped at the end of the statement: its Drop
\* flushes the buffer to the pipe
BufWriter_drop(r) ==
    /\ pc[r] = "drop_writer"
    /\ \/ /\ writer[r] = <<>>
          /\ pc' = [pc EXCEPT ![r] = "close_stdin"]
          /\ UNCHANGED <<stdinPipe, writer, sent>>
       \/ /\ writer[r] # <<>>
          /\ stdinPipe[r].r
          /\ Room(stdinPipe[r]) > 0
          /\ LET n == Min(Room(stdinPipe[r]), Len(writer[r]))
             IN  /\ stdinPipe' = [stdinPipe EXCEPT ![r].data = @ \o Take(writer[r], n)]
                 /\ writer' = [writer EXCEPT ![r] = Drop(@, n)]
                 /\ sent' = [sent EXCEPT ![r] = @ + n]
                 /\ pc' = [pc EXCEPT ![r] =
                             IF n = Len(writer[r]) THEN "close_stdin"
                             ELSE "drop_writer"]
    /\ UNCHANGED <<req, tool, spawned, child, stdoutPipe, stderrPipe,
                   output, resp, responses, faults>>

\* Drop for BufWriter ignores the result of the flush: the fault is raised
\* and nobody sees it
BufWriter_drop_err(r) ==
    /\ pc[r] = "drop_writer"
    /\ writer[r] # <<>>
    /\ ~stdinPipe[r].r
    /\ faults' = [faults EXCEPT ![r] = @ \cup {[step |-> "write", text |-> BrokenPipe]}]
    /\ writer' = [writer EXCEPT ![r] = <<>>]
    /\ pc' = [pc EXCEPT ![r] = "close_stdin"]
    /\ UNCHANGED <<req, tool, spawned, child, stdinPipe, stdoutPipe, stderrPipe,
                   sent, output, resp, responses>>

\* lines 106 / 132: wait_with_output first drops the parent's end of stdin
wait_close_stdin(r) ==
    /\ pc[r] = "close_stdin"
    /\ stdinPipe' = [stdinPipe EXCEPT ![r].w = FALSE]
    /\ pc' = [pc EXCEPT ![r] = "read2"]
    /\ UNCHANGED <<req, tool, spawned, child, stdoutPipe, stderrPipe,
                   writer, sent, output, resp, responses, faults>>

\* then reads stdout and stderr together, whichever has bytes
wait_read2(r) ==
    /\ pc[r] = "read2"
    /\ stdoutPipe[r].data # <<>> \/ stderrPipe[r].data # <<>>
    /\ output' = [output EXCEPT ![r].stdout = @ \o stdoutPipe[r].data,
                                ![r].stderr = @ \o stderrPipe[r].data]
    /\ stdoutPipe' = [stdoutPipe EXCEPT ![r].data = <<>>]
    /\ stderrPipe' = [stderrPipe EXCEPT ![r].data = <<>>]
    /\ UNCHANGED <<pc, req, tool, spawned, child, stdinPipe,
                   writer, sent, resp, responses, faults>>

\* until both are at end-of-file
wait_read2_eof(r) ==
    /\ pc[r] = "read2"
    /\ stdoutPipe[r].data = <<>> /\ ~stdoutPipe[r].w
    /\ stderrPipe[r].data = <<>> /\ ~stderrPipe[r].w
    /\ stdoutPipe' = [stdoutPipe EXCEPT ![r].r = FALSE]
    /\ stderrPipe' = [stderrPipe EXCEPT ![r].r = FALSE]
    /\ pc' = [pc EXCEPT ![r] = "wait"]
    /\ UNCHANGED <<req, tool, spawned, child, stdinPipe,
                   writer, sent, output, resp, responses, faults>>

\* lines 108-114 / 134-140: the match on result.status.success()
\* (result is the Output of wait_with_output: status, stdout, stderr)
DispatchResult(tl, result) ==
    IF result.status = 0
    THEN FormatResponse(FormattedCode(result), FormatterLabel(tl))
    ELSE FormattingFailed(FormatterError(tl, result))

Output(r) ==
    [status |-> child[r].exit, stdout |-> output[r].stdout,
     stderr |-> output[r].stderr]

\* and then waits for the child, which reaps it
wait_ok(r) ==
    /\ pc[r] = "wait"
    /\ child[r].state = "exited"
    /\ child' = [child EXCEPT ![r].state = "reaped"]
    /\ Respond(r, DispatchResult(tool[r], Output(r)))
    /\ UNCHANGED <<req, tool, spawned, stdinPipe, stdoutPipe, stderrPipe,
                   writer, sent, output, faults>>

\* .map_err(|e| format!("Prettier failed: {}", e))?
wait_err(r) ==
    /\ pc[r] = "wait"
    /\ \E e \in WaitFaults :
          /\ faults' = [faults EXCEPT ![r] = @ \cup {[step |-> "wait", text |-> e]}]
          /\ Respond(r, FormattingFailed(WaitError(tool[r], e)))
    /\ UNCHANGED <<req, tool, spawned, child, stdinPipe, stdoutPipe, stderrPipe,
                   writer, sent, output>>

(***************************************************************************)
(* The child process.                                                      *)
(***************************************************************************)
Running(r) == child[r].state = "running"

MayRead(r) ==
    \/ child[r].plan.mode = "lazy"
    \/ /\ child[r].plan.mode = "eager"
       /\ child[r].outPos = Len(child[r].plan.out)
       /\ child[r].errPos = Len(child[r].plan.err)

MayWrite(r) ==
    \/ child[r].plan.mode = "eager"
    \/ child[r].plan.mode = "lazy" /\ child[r].eof
    \/ child[r].plan.mode = "deaf" /\ ~stdinPipe[r].r

InputDone(r) ==
    \/ child[r].eof
    \/ child[r].plan.mode = "deaf" /\ ~stdinPipe[r].r

child_close_stdin(r) ==
    /\ Running(r)
    /\ child[r].plan.mode = "deaf"
    /\ stdinPipe[r].r
    /\ stdinPipe' = [stdinPipe EXCEPT ![r].r = FALSE, ![r].data = <<>>]
    /\ UNCHANGED <<pc, req, tool, spawned, child, stdoutPipe, stderrPipe,
                   writer, sent, output, resp, responses, faults>>

child_read(r) ==
    /\ Running(r)
    /\ MayRead(r)
    /\ ~child[r].eof
    /\ stdinPipe[r].r
    /\ \/ /\ stdinPipe[r].data # <<>>
          /\ child' = [child EXCEPT ![r].input = @ \o stdinPipe[r].data]
          /\ stdinPipe' = [stdinPipe EXCEPT ![r].data = <<>>]
       \/ /\ stdinPipe[r].data = <<>>
          /\ ~stdinPipe[r].w
          /\ child' = [child EXCEPT ![r].eof = TRUE]
          /\ UNCHANGED stdinPipe
    /\ UNCHANGED <<pc, req, tool, spawned, stdoutPipe, stderrPipe,
                   writer, sent, output, resp, responses, faults>>

child_write_stdout(r) ==
    /\ Running(r)
    /\ MayWrite(r)
    /\ child[r].outPos < Len(child[r].plan.out)
    /\ stdoutPipe[r].r
    /\ Room(stdoutPipe[r]) > 0
    /\ LET n == Min(Room(stdoutPipe[r]), Len(child[r].plan.out) - child[r].outPos)
       IN  /\ stdoutPipe' = [stdoutPipe EXCEPT ![r].data =
                  @ \o SubSeq(child[r].plan.out, child[r].outPos + 1, child[r].outPos + n)]
           /\ child' = [child EXCEPT ![r].outPos = @ + n]
    /\ UNCHANGED <<pc, req, tool, spawned, stdinPipe, stderrPipe,
                   writer, sent, output, resp, responses, faults>>

child_write_stderr(r) ==
    /\ Running(r)
    /\ MayWrite(r)
    /\ child[r].errPos < Len(child[r].plan.err)
    /\ stderrPipe[r].r
    /\ Room(stderrPipe[r]) > 0
    /\ LET n == Min(Room(stderrPipe[r]), Len(child[r].plan.err) - child[r].errPos)
       IN  /\ stderrPipe' = [stderrPipe EXCEPT ![r].data =
                  @ \o SubSeq(child[r].plan.err, child[r].errPos + 1, child[r].errPos + n)]
           /\ child' = [child EXCEPT ![r].errPos = @ + n]
    /\ UNCHANGED <<pc, req, tool, spawned, stdinPipe, stdoutPipe,
                   writer, sent, output, resp, responses, faults>>

\* a process that ends closes its ends of the three pipes
ChildEnds(r, status) ==
    /\ child' = [child EXCEPT ![r].state = "exited", ![r].exit = status]
    /\ stdinPipe' = [stdinPipe EXCEPT ![r].r = FALSE, ![r].data = <<>>]
    /\ stdoutPipe' = [stdoutPipe EXCEPT ![r].w = FALSE]
    /\ stderrPipe' = [stderrPipe EXCEPT ![r].w = FALSE]

child_exit(r) ==
    /\ Running(r)
    /\ InputDone(r)
    /\ child[r].outPos = Len(child[r].plan.out)
    /\ child[r].errPos = Len(child[r].plan.err)
    /\ ChildEnds(r, child[r].plan.exit)
    /\ UNCHANGED <<pc, req, tool, spawned, writer, sent, output, resp,
                   responses, faults>>

\* a child that writes to a pipe nobody can read any more is ended by SIGPIPE
child_sigpipe(r) ==
    /\ Running(r)
    /\ MayWrite(r)
    /\ \/ child[r].outPos < Len(child[r].plan.out) /\ ~stdoutPipe[r].r
       \/ child[r].errPos < Len(child[r].plan.err) /\ ~stderrPipe[r].r
    /\ ChildEnds(r, 1)
    /\ UNCHANGED <<pc, req, tool, spawned, writer, sent, output, resp,
                   responses, faults>>

(***************************************************************************)
(* Specifications.                                                         *)
(***************************************************************************)
Step(r, inputs, plans) ==
    \/ Receive(r, inputs)
    \/ Poll(r)
    \/ health(r)
    \/ format_code_unsupported(r)
    \/ format_code_dispatch(r)
    \/ spawn_ok(r, plans)
    \/ spawn_err(r)
    \/ write_all_buffered(r)
    \/ write_all_direct(r)
    \/ write_all_err(r)
    \/ BufWriter_drop(r)
    \/ BufWriter_drop_err(r)
    \/ wait_close_stdin(r)
    \/ wait_read2(r)
    \/ wait_read2_eof(r)
    \/ wait_ok(r)
    \/ wait_err(r)
    \/ child_close_stdin(r)
    \/ child_read(r)
    \/ child_write_stdout(r)
    \/ child_write_stderr(r)
    \/ child_exit(r)
    \/ child_sigpipe(r)

\* one request, with every input and every child
Next == Step(1, Requests, Plans)

Spec == Init /\ [][Next]_vars

(***************************************************************************)
(* The executor specification: NumReqs requests share NumWorkers worker   *)
(* threads.  The inputs are few, and chosen so that every step of the     *)
(* dispatch still occurs.                                                  *)
(***************************************************************************)
ExecRequests ==
    FormatRequest({"js", "python"}, {<<97>>, <<97, 98>>}) \cup {HealthRequest}

ExecPlans ==
    [out : {<<97>>}, err : {<<255>>}, exit : {0}, mode : {"lazy", "deaf"}]

NextExec == \E r \in ReqIds : Step(r, ExecRequests, ExecPlans)

SpecExec == Init /\ [][NextExec]_vars

(***************************************************************************)
(* Vocabulary of the properties.                                           *)
(***************************************************************************)
IsFormat(r) == pc[r] # "absent" /\ req[r].kind = "POST /format"

RecognizedTokens == {"javascript", "typescript", "js", "ts", "rust"}

Recognized(r) == IsFormat(r) /\ req[r].language \in RecognizedTokens

Done(r) == pc[r] = "done"

PrettierCommand == "npx prettier --stdin-filepath file.js --parser babel"
RustfmtCommand == "rustfmt --emit stdout"

\* the text d contains the text l
Fragments == {"", "Language '", "' is not supported yet"}
Contains(d, l) == \E before \in Fragments, after \in Fragments : d = before \o l \o after

\* the bytes the child has written to stdout / stderr
StdoutProduced(r) == Take(child[r].plan.out, child[r].outPos)
StderrProduced(r) == Take(child[r].plan.err, child[r].errPos)

\* dispatch collected the child's exit status
Collected(r) == child[r].state = "reaped"

\* wait_with_output has been called
AtWaitStep(r) == pc[r] \in {"close_stdin", "read2", "wait"}

\* the response reports the fault f as the failure of its step
Reports(r, f) ==
    /\ resp[r].http = 500
    /\ resp[r].error = "Formatting failed"
    /\ resp[r].details =
          (CASE f.step = "spawn" -> SpawnError(tool[r], f.text)
             [] f.step = "write" -> WriteError(f.text)
             [] f.step = "wait"  -> WaitError(tool[r], f.text))

\* the handler of r cannot take a step until its child does
BlockedOnChild(r) ==
    /\ Running(r)
    /\ \/ /\ pc[r] = "write_all"
          /\ Len(req[r].code) >= BufCap
          /\ stdinPipe[r].r /\ Room(stdinPipe[r]) = 0
       \/ /\ pc[r] = "drop_writer"
          /\ writer[r] # <<>>
          /\ stdinPipe[r].r /\ Room(stdinPipe[r]) = 0
       \/ /\ pc[r] = "read2"
          /\ stdoutPipe[r].data = <<>> /\ stderrPipe[r].data = <<>>
          /\ stdoutPipe[r].w \/ stderrPipe[r].w

\* the child of r cannot write: it has bytes for a pipe that is full and open
ChildBlockedWriting(r) ==
    /\ Running(r)
    /\ MayWrite(r)
    /\ \/ /\ child[r].outPos < Len(child[r].plan.out)
          /\ stdoutPipe[r].r /\ Room(stdoutPipe[r]) = 0
       \/ /\ child[r].errPos < Len(child[r].plan.err)
          /\ stderrPipe[r].r /\ Room(stderrPipe[r]) = 0
    /\ \/ child[r].outPos = Len(child[r].plan.out)
       \/ Room(stdoutPipe[r]) = 0
    /\ \/ child[r].errPos = Len(child[r].plan.err)
       \/ Room(stderrPipe[r]) = 0

\* the dispatcher of r is blocked writing to the child's stdin
BlockedWritingStdin(r) ==
    /\ pc[r] \in {"write_all", "drop_writer"}
    /\ BlockedOnChild(r)

(***************************************************************************)
(* C1.  A request whose language is one of "javascript", "typescript",    *)
(* "js", "ts" spawns the prettier command and nothing else, a request     *)
(* whose language is "rust" spawns rustfmt and nothing else, a finished   *)
(* dispatch has spawned it, and a success response carries the label of   *)
(* the command that was spawned.                                           *)
(***************************************************************************)
C1_RoutesToConfiguredTool ==
    \A r \in ReqIds :
        IsFormat(r) =>
            /\ req[r].language \in {"javascript", "typescript", "js", "ts"} =>
                  /\ \A i \in 1..Len(spawned[r]) : spawned[r][i] = PrettierCommand
                  /\ Done(r) => spawned[r] = <<PrettierCommand>>
            /\ req[r].language = "rust" =>
                  /\ \A i \in 1..Len(spawned[r]) : spawned[r][i] = RustfmtCommand
                  /\ Done(r) => spawned[r] = <<RustfmtCommand>>
            /\ Done(r) /\ resp[r].status = "success" =>
                  /\ spawned[r] = <<PrettierCommand>> => resp[r].formatter_used = "prettier"
                  /\ spawned[r] = <<RustfmtCommand>> => resp[r].formatter_used = "rustfmt"
                  /\ resp[r].formatter_used \in {"prettier", "rustfmt"}

C1_Witness ==
    \E r \in ReqIds :
        /\ IsFormat(r) /\ Done(r)
        /\ req[r].language = "ts"
        /\ spawned[r] = <<PrettierCommand>>
        /\ resp[r].http = 200
        /\ resp[r].formatter_used = "prettier"

(***************************************************************************)
(* C2.  A request whose language is not exactly one of the five           *)
(* recognized tokens never spawns a child, and is answered 400 with error *)
(* "Unsupported language" and details that contain the language.          *)
(***************************************************************************)
C2_UnsupportedLanguage ==
    \A r \in ReqIds :
        IsFormat(r) /\ req[r].language \notin RecognizedTokens =>
            /\ spawned[r] = <<>>
            /\ child[r].state = "none"
            /\ pc[r] \in {"queued", "handler", "done"}
            /\ Done(r) =>
                  /\ resp[r].http = 400
                  /\ resp[r].error = "Unsupported language"
                  /\ Contains(resp[r].details, req[r].language)
                  /\ responses[r] = 1

C2_Witness ==
    \E r \in ReqIds :
        /\ IsFormat(r) /\ Done(r)
        /\ req[r].language = "Rust"
        /\ resp[r].http = 400
        /\ resp[r].details = "Language 'Rust' is not supported yet"

(***************************************************************************)
(* C3.  For a recognized language the response is 200 "success" exactly   *)
(* when the child was spawned, the payload was written, the wait          *)
(* succeeded and the exit status is success, and then formatted_code is   *)
(* the child's complete standard output; otherwise it is 500 "Formatting  *)
(* failed" and carries no formatted code.                                  *)
(***************************************************************************)
C3_SuccessIffAllStepsSucceeded ==
    \A r \in ReqIds :
        Recognized(r) /\ Done(r) =>
            LET allSteps == /\ child[r].state # "none"
                            /\ sent[r] = Len(req[r].code)
                            /\ Collected(r)
                            /\ child[r].exit = 0
            IN  /\ (resp[r].http = 200 /\ resp[r].status = "success") <=> allSteps
                /\ allSteps =>
                      resp[r].formatted_code = from_utf8_lossy(StdoutProduced(r))
                /\ ~allSteps =>
                      /\ resp[r].http = 500
                      /\ resp[r].error = "Formatting failed"
                      /\ resp[r].formatted_code = ""

(***************************************************************************)
(* C4, as stated.  When the formatter ran and dispatch collected a        *)
(* failure exit status, details equals the standard-error text the tool   *)
(* produced.                                                               *)
(***************************************************************************)
C4_DetailsEqualStderr ==
    \A r \in ReqIds :
        Recognized(r) /\ Done(r) /\ Collected(r) /\ child[r].exit # 0 =>
            /\ resp[r].http = 500
            /\ resp[r].details = from_utf8_lossy(StderrProduced(r))

(***************************************************************************)
(* C4, amended.  When dispatch collected a failure exit status, details   *)
(* is the fixed prefix of the path, "Prettier error: " or                 *)
(* "rustfmt error: ", followed by the lossy decoding of everything the    *)
(* tool wrote to standard error.                                           *)
(***************************************************************************)
C4_DetailsArePrefixedStderr ==
    \A r \in ReqIds :
        Recognized(r) /\ Done(r) /\ Collected(r) /\ child[r].exit # 0 =>
            /\ resp[r].http = 500
            /\ resp[r].error = "Formatting failed"
            /\ StderrProduced(r) = child[r].plan.err
            /\ resp[r].details =
                  (IF req[r].language = "rust" THEN "rustfmt error: "
                   ELSE "Prettier error: ") \o from_utf8_lossy(child[r].plan.err)

C4_Witness ==
    \E r \in ReqIds :
        /\ Recognized(r) /\ Done(r) /\ Collected(r)
        /\ child[r].exit # 0
        /\ child[r].plan.err = <<97, 255>>
        /\ child[r].plan.out = <<97>>
        /\ resp[r].details = "Prettier error: a{U+FFFD}"

(***************************************************************************)
(* C5.  When a dispatch returns, the parent's ends of the three pipes are *)
(* closed and the child, if one was spawned, has been reaped.             *)
(***************************************************************************)
C5_ReleasedOnEveryReturn ==
    \A r \in ReqIds :
        Recognized(r) /\ Done(r) =>
            /\ ~stdinPipe[r].w
            /\ ~stdoutPipe[r].r
            /\ ~stderrPipe[r].r
            /\ child[r].state # "none" => child[r].state = "reaped"

(***************************************************************************)
(* C6.  A request that has arrived never has to wait for a subprocess to  *)
(* exit: it is not the case that a request is queued while every worker   *)
(* thread is held by a request blocked on its child.                      *)
(***************************************************************************)
C6_BlockedRequestsLeaveCapacity ==
    \A q \in ReqIds :
        pc[q] = "queued" =>
            \/ BusyWorkers < NumWorkers
            \/ \E r \in ReqIds : OnWorker(r) /\ ~BlockedOnChild(r)

(***************************************************************************)
(* C7.  The dispatcher is never blocked writing to the child's stdin      *)
(* while the child is blocked writing to a full stdout or stderr pipe.    *)
(***************************************************************************)
C7_NoPipeDeadlock ==
    \A r \in ReqIds : ~(BlockedWritingStdin(r) /\ ChildBlockedWriting(r))

(***************************************************************************)
(* C8.  Every I/O fault raised at the spawn, the write or the wait step   *)
(* of a dispatch is what the response reports: a 500 whose details name   *)
(* that step and carry the fault text.                                     *)
(***************************************************************************)
C8_EveryFaultReported ==
    \A r \in ReqIds :
        Recognized(r) /\ Done(r) => \A f \in faults[r] : Reports(r, f)

(***************************************************************************)
(* C9.  A request with a recognized language attempts exactly one spawn,  *)
(* never a second one, answers once, and each failure (a fault at a step, *)
(* or a rejection by the formatter) is the failure the response reports.  *)
(***************************************************************************)
C9_OneSpawnEachFailureReportedOnce ==
    \A r \in ReqIds :
        Recognized(r) =>
            /\ Len(spawned[r]) <= 1
            /\ responses[r] <= 1
            /\ pc[r] \notin {"queued", "handler", "spawn"} => Len(spawned[r]) = 1
            /\ Done(r) =>
                  /\ responses[r] = 1
                  /\ \A f \in faults[r] : Reports(r, f)
                  /\ Collected(r) /\ child[r].exit # 0 =>
                        resp[r] = FormattingFailed(FormatterError(tool[r], Output(r)))

(***************************************************************************)
(* C10.  In a dispatch that has reached the wait step, every byte of code *)
(* has been handed to the stdin pipe; stdout and stderr are read and the  *)
(* exit status is collected only after the parent's end of stdin is       *)
(* closed; the exit status is collected only after both are at            *)
(* end-of-file; and a child that sees end-of-input has read exactly code. *)
(***************************************************************************)
C10_WriteCloseReadWait ==
    \A r \in ReqIds :
        Recognized(r) =>
            /\ AtWaitStep(r) \/ Collected(r) => sent[r] = Len(req[r].code)
            /\ pc[r] \in {"read2", "wait"} => ~stdinPipe[r].w
            /\ pc[r] = "wait" \/ Collected(r) =>
                  /\ ~stdoutPipe[r].r /\ ~stderrPipe[r].r
                  /\ output[r].stdout = StdoutProduced(r)
                  /\ output[r].stderr = StderrProduced(r)
            /\ child[r].eof => child[r].input = req[r].code

=============================================================================
